---- MODULE Spec2Model ----
(***************************************************************************)
(* Purchase state machine, notification bridge and session gate of the     *)
(* nyota storefront (src/routes.py, src/models/nyota.py).                  *)
(*                                                                         *)
(* Python's None is the string "None" for string-valued fields and 0 for   *)
(* integer-valued ones (both are falsy in the code's truthiness tests).    *)
(* session.get('is_verified') is only ever tested for truthiness, so the   *)
(* absent key and the value False are the same value FALSE here.           *)
(* session['customer_id'] is written but never read and is left out.       *)
(***************************************************************************)
EXTENDS Integers, Sequences, FiniteSets, TLC

(* ------------------------------ bounds -------------------------------- *)
MaxPurchases == 2
MaxSales == 2
MaxQueues == 2
MaxQueued == 3

(* --------------------------- value domains ---------------------------- *)
None == "None"
PENDING == "PENDING"
COMPLETED == "COMPLETED"
FAILED == "FAILED"

Phones == {"A", "B"}
RawPhones == {"A", "B", " B"}
AssetIds == {1, 2}
FileIds == {1, 2}
ChannelIds == {"c1", "c2"}
GatewayRefs == {"X", "Y"}
StreamIds == {"s1", "s2"}
WorkerIds == {1, 2}
CallerIds == {"w1"}
ThreadIds == StreamIds \cup CallerIds
QueueIds == 1..MaxQueues
QUEUE_SIZE == 10
THROTTLE_RECENT == 3
CREATOR == 1

\* Asset store (external collaborator): fixed catalogue rows.
AssetPrice(a) == IF a = 1 THEN 10 ELSE 20
AssetCreator(a) == CREATOR
AssetIsSubscription(a) == a = 2
AssetInterval(a) == IF a = 2 THEN "monthly" ELSE None
AssetOfFile(f) == f

NoTier == [price_ok |-> FALSE, price |-> 0, interval |-> None]
WeeklyTier == [price_ok |-> TRUE, price |-> 5, interval |-> "weekly"]
QuarterlyTier == [price_ok |-> TRUE, price |-> 25, interval |-> "quarterly"]
YearlyTier == [price_ok |-> TRUE, price |-> 90, interval |-> "yearly"]
\* A tier with a usable price and no 'interval' key.
PlainTier == [price_ok |-> TRUE, price |-> 15, interval |-> None]

(* ------------------------------ state --------------------------------- *)
VARIABLES
    purchases,      \* Seq of Purchase rows; the row id is the index
    assets,         \* asset id -> [total_sales, total_revenue]
    session,        \* the browser's Flask session
    channels,       \* SseManager.channels: channel id -> queue object id
    queues,         \* live queue objects: queue id -> Seq of messages
    streams,        \* payment_stream generators: stream id -> state
    recent_failures,\* failed AccessAttempt rows inside the throttle window
    now,            \* datetime.utcnow(), in days
    sales_credit,   \* history: purchase id -> times its sale was added
    workers,        \* concurrent uza_payment_callback requests in flight
    gap_events,     \* history: channels with an event queued while unread
    lock,           \* SseManager.lock: the thread holding it, or None
    calls,          \* thread -> the SseManager method it is inside
    initiating,     \* the initiate_payment request between its two commits
    resp            \* the last request and its response

vars == <<purchases, assets, session, channels, queues, streams,
          recent_failures, now, sales_credit, workers, gap_events,
          lock, calls, initiating, resp>>

ledger == <<purchases, assets, sales_credit>>
bridge == <<channels, queues, streams>>
inflight == <<lock, calls, initiating>>

(* ------------------------------ helpers ------------------------------- *)
\* str.strip() on the phone strings of the model.
Strip(s) == IF s = " B" THEN "B" ELSE s

PurchaseIds == 1..Len(purchases)

\* The lookup without its filter: Purchase.query.first().
FirstByRef_Unfiltered(ps, ref) == IF Len(ps) > 0 THEN 1 ELSE 0

\* Purchase.query.filter_by(payment_gateway_ref=ref).first(): 0 when there
\* is no row; SQLite scans the unindexed column in rowid order.
FirstByRef(ps, ref) ==
    IF \E i \in 1..Len(ps) : ps[i].payment_gateway_ref = ref
    THEN CHOOSE i \in 1..Len(ps) :
            /\ ps[i].payment_gateway_ref = ref
            /\ \A j \in 1..Len(ps) : ps[j].payment_gateway_ref = ref => i <= j
    ELSE 0

\* Customer.query.filter_by(whatsapp_number=phone).first() is not None:
\* Customer rows are only ever inserted by initiate_payment, together with
\* the purchase row.
CustomerExists(ps, phone) == \E i \in 1..Len(ps) : ps[i].customer = phone

\* The last request handled: its route, HTTP status, outcome and inputs.
IdleWorker == [pc |-> "idle", deal_id |-> None, purchase |-> 0, code |-> 0,
               total_sales |-> 0, total_revenue |-> 0]

Response(op, code, result, req) == [op |-> op, code |-> code, result |-> result, req |-> req]

(* --------------------------- SseManager ------------------------------- *)
\* Queue objects still referenced by the registry or by a generator.
LiveQueues(chs, sts) ==
    ({chs[c] : c \in DOMAIN chs} \cup {sts[s].q : s \in DOMAIN sts}) \ {0}

Restrict(f, S) == [x \in S |-> f[x]]

\* Garbage collection of unreferenced queue objects.
Collect(qs, chs, sts) == Restrict(qs, DOMAIN qs \cap LiveQueues(chs, sts))

\* A publish that reaches every live queue when the channel is not
\* registered.
Publish_Broadcast(chs, qs, channel_id, message) ==
    [q \in DOMAIN qs |->
        IF (channel_id \in DOMAIN chs => q = chs[channel_id]) /\ Len(qs[q]) < QUEUE_SIZE
        THEN Append(qs[q], message)
        ELSE qs[q]]

\* A publish with a blocking-free put on an unbounded queue.
Publish_Unbounded(chs, qs, channel_id, message) ==
    IF channel_id \in DOMAIN chs
    THEN [qs EXCEPT ![chs[channel_id]] = Append(@, message)]
    ELSE qs

\* SseManager.publish: put_nowait on the registered queue, drop when full,
\* nothing when the channel is not registered.
Publish(chs, qs, channel_id, message) ==
    IF channel_id \in DOMAIN chs
    THEN IF Len(qs[chs[channel_id]]) < QUEUE_SIZE
         THEN [qs EXCEPT ![chs[channel_id]] = Append(@, message)]
         ELSE qs
    ELSE qs

\* A cleanup that leaves the registry entry in place.
CleanupChannel_Keep(chs, channel_id) == chs

\* SseManager.cleanup_channel: self.channels.pop(channel_id, None).
CleanupChannel(chs, channel_id) == Restrict(chs, DOMAIN chs \ {channel_id})

\* The channel is registered and no generator holds its queue: a message
\* published now waits for a stream that connects later.
Unread(chs, sts, channel_id) ==
    /\ channel_id \in DOMAIN chs
    /\ \A s \in DOMAIN sts : sts[s].q # chs[channel_id]

\* The history of events queued while unread, after a publish.
Queued(chs, sts, channel_id) ==
    IF Unread(chs, sts, channel_id) THEN gap_events \cup {channel_id} ELSE gap_events

(* ------------------------------- Init --------------------------------- *)
IdleInitiate == [pc |-> "idle", purchase |-> 0, gw |-> None, req |-> [none |-> TRUE]]
IdleCall == [pc |-> "idle", op |-> None, channel_id |-> None]

Init ==
    /\ purchases = << >>
    /\ assets = [a \in AssetIds |-> [total_sales |-> 0, total_revenue |-> 0]]
    /\ session = [customer_phone |-> None, is_verified |-> FALSE, creator_id |-> 0]
    /\ channels = << >>
    /\ queues = << >>
    /\ streams = [s \in StreamIds |-> [pc |-> "closed", channel_id |-> None, q |-> 0]]
    /\ recent_failures = 0
    /\ now = 0
    /\ sales_credit = << >>
    /\ workers = [w \in WorkerIds |-> IdleWorker]
    /\ gap_events = {}
    /\ lock = None
    /\ calls = [t \in ThreadIds |-> IdleCall]
    /\ initiating = IdleInitiate
    /\ resp = Response("start", 0, None, [none |-> TRUE])

(* --------------------------- initiate_payment ------------------------- *)
\* gw is the outcome of the outbound gateway call: "error" (network error,
\* timeout, non-2xx, body that is not the expected JSON), "noid" (an order
\* without an id, or no data.order), or the deal id the gateway returned.
GatewayOutcomes == {"error", "noid"} \cup GatewayRefs

\* Lines 1437-1454: the amount charged and the ticket_data stored.
TierAmount(asset_id, tier) ==
    IF tier # NoTier /\ tier.price_ok THEN tier.price ELSE AssetPrice(asset_id)

TierTicketData(tier) ==
    IF tier # NoTier /\ tier.price_ok THEN tier ELSE NoTier

NewPurchase(phone, asset_id, channel_id, tier) ==
    [customer |-> phone, asset_id |-> asset_id,
     amount_paid |-> TierAmount(asset_id, tier),
     purchase_date |-> now, status |-> PENDING,
     payment_gateway_ref |-> None, sse_channel_id |-> channel_id,
     ticket_data |-> TierTicketData(tier)]

\* An identity claim that leaves a session alone when it already holds the
\* same identity.
ClaimIdentity_KeepVerified(sess, phone) ==
    IF sess.customer_phone # None /\ Strip(sess.customer_phone) = Strip(phone)
    THEN sess
    ELSE [sess EXCEPT !.customer_phone = Strip(phone), !.is_verified = FALSE]

\* Lines 1484-1494: the session after the identity claim.
ClaimIdentity(sess, phone) ==
    LET popped == IF sess.customer_phone # None /\ Strip(sess.customer_phone) # Strip(phone)
                  THEN [sess EXCEPT !.customer_phone = None, !.is_verified = FALSE]
                  ELSE sess
    IN [popped EXCEPT !.customer_phone = Strip(phone), !.is_verified = FALSE]

InitiatePayment(phone_number, asset_id, channel_id, tier, uza_pk, gw) ==
    LET phone == Strip(phone_number)
        req == [phone_number |-> phone_number, asset_id |-> asset_id,
                channel_id |-> channel_id, uza_pk |-> uza_pk, gw |-> gw]
        pid == Len(purchases) + 1
        created == Append(purchases, NewPurchase(phone, asset_id, channel_id, tier))
    IN
    /\ Len(purchases) < MaxPurchases
    /\ UNCHANGED <<assets, bridge, recent_failures, now, workers, gap_events, inflight>>
    /\ IF phone = "" \/ asset_id = 0 \/ channel_id = ""
       THEN /\ resp' = Response("initiate_payment", 400, "failure", req)
            /\ UNCHANGED <<purchases, session, sales_credit>>
       ELSE IF asset_id \notin AssetIds
       THEN /\ resp' = Response("initiate_payment", 404, "failure", req)
            /\ UNCHANGED <<purchases, session, sales_credit>>
       ELSE /\ sales_credit' = Append(sales_credit, 0)
            /\ IF ~uza_pk
               THEN /\ purchases' = created
                    /\ UNCHANGED session
                    /\ resp' = Response("initiate_payment", 500, "failure", req)
               ELSE /\ session' = ClaimIdentity(session, phone_number)
                    /\ IF gw \in GatewayRefs
                       THEN /\ purchases' = [created EXCEPT ![pid].payment_gateway_ref = gw]
                            /\ resp' = Response("initiate_payment", 200, "success", req)
                       ELSE /\ purchases' = [created EXCEPT ![pid].status = FAILED]
                            /\ resp' = Response("initiate_payment", 500, "failure", req)

\* An initiate whose first commit already carries the gateway's ref.
InitiateBegin_RefEarly(phone_number, asset_id, channel_id, tier, gw) ==
    LET phone == Strip(phone_number)
        req == [phone_number |-> phone_number, asset_id |-> asset_id,
                channel_id |-> channel_id, uza_pk |-> TRUE, gw |-> gw]
        pid == Len(purchases) + 1
        created == Append(purchases, NewPurchase(phone, asset_id, channel_id, tier))
    IN
    /\ Len(purchases) < MaxPurchases
    /\ initiating.pc = "idle"
    /\ phone # "" /\ asset_id \in AssetIds /\ channel_id # ""
    /\ purchases' = IF gw \in GatewayRefs
                    THEN [created EXCEPT ![pid].payment_gateway_ref = gw]
                    ELSE created
    /\ sales_credit' = Append(sales_credit, 0)
    /\ session' = ClaimIdentity(session, phone_number)
    /\ initiating' = [pc |-> "called", purchase |-> pid, gw |-> gw, req |-> req]
    /\ UNCHANGED <<assets, bridge, recent_failures, now, workers, gap_events, lock, calls, resp>>

\* initiate_payment, lines 1417-1537, for a request that passes validation
\* and the key check: the PENDING row is committed, the session claims the
\* identity, and the gateway has answered the order call with gw; the
\* handler has not yet acted on the answer.
InitiateBegin(phone_number, asset_id, channel_id, tier, gw) ==
    LET phone == Strip(phone_number)
        req == [phone_number |-> phone_number, asset_id |-> asset_id,
                channel_id |-> channel_id, uza_pk |-> TRUE, gw |-> gw]
        pid == Len(purchases) + 1
    IN
    /\ Len(purchases) < MaxPurchases
    /\ initiating.pc = "idle"
    /\ phone # "" /\ asset_id \in AssetIds /\ channel_id # ""
    /\ purchases' = Append(purchases, NewPurchase(phone, asset_id, channel_id, tier))
    /\ sales_credit' = Append(sales_credit, 0)
    /\ session' = ClaimIdentity(session, phone_number)
    /\ initiating' = [pc |-> "called", purchase |-> pid, gw |-> gw, req |-> req]
    /\ UNCHANGED <<assets, bridge, recent_failures, now, workers, gap_events, lock, calls, resp>>

\* Lines 1546-1580: the second commit attaches the ref and the handler
\* answers 200; any failure of the call marks the row FAILED and answers 500.
InitiateFinish ==
    /\ initiating.pc = "called"
    /\ LET pid == initiating.purchase
           gw == initiating.gw
       IN IF gw \in GatewayRefs
          THEN /\ purchases' = [purchases EXCEPT ![pid].payment_gateway_ref = gw]
               /\ resp' = Response("initiate_payment", 200, "success", initiating.req)
          ELSE /\ purchases' = [purchases EXCEPT ![pid].status = FAILED]
               /\ resp' = Response("initiate_payment", 500, "failure", initiating.req)
    /\ initiating' = IdleInitiate
    /\ UNCHANGED <<assets, sales_credit, bridge, session, recent_failures, now, workers,
                   gap_events, lock, calls>>

(* ----------------------------- retry_payment -------------------------- *)
RetryPayment(deal_id, new_phone_number, purchase_id, uza_pk, gw_ok) ==
    LET req == [deal_id |-> deal_id, phone_number |-> new_phone_number,
                purchase_id |-> purchase_id]
    IN
    /\ UNCHANGED <<assets, bridge, recent_failures, now, workers, gap_events, sales_credit, inflight>>
    /\ IF deal_id = "" \/ new_phone_number = "" \/ purchase_id = 0
       THEN /\ resp' = Response("retry_payment", 400, "failure", req)
            /\ UNCHANGED <<purchases, session>>
       ELSE IF purchase_id \notin PurchaseIds
       THEN /\ resp' = Response("retry_payment", 404, "failure", req)
            /\ UNCHANGED <<purchases, session>>
       ELSE IF ~uza_pk
       THEN /\ resp' = Response("retry_payment", 500, "failure", req)
            /\ UNCHANGED <<purchases, session>>
       ELSE IF gw_ok
       THEN /\ purchases' = [purchases EXCEPT ![purchase_id].status = PENDING]
            /\ session' = [session EXCEPT !.customer_phone = new_phone_number]
            /\ resp' = Response("retry_payment", 200, "success", req)
       ELSE /\ purchases' = [purchases EXCEPT ![purchase_id].status = FAILED]
            /\ UNCHANGED session
            /\ resp' = Response("retry_payment", 500, "failure", req)

(* ----------------------------- payment_status ------------------------ *)
\* An ownership test that lets every session with an identity through.
OwnerMatches_Any(session_phone, customer) == TRUE

\* Lines 1650: the phone of the session against the phone of the purchase,
\* both stripped.
OwnerMatches(session_phone, customer) == Strip(customer) = Strip(session_phone)

\* The JSON body of the poll: redirect_url is the purchase id the
\* finalize-session URL is built from, 0 for null.
PollResponse(code, result, redirect_url, req) ==
    [op |-> "payment_status", code |-> code, result |-> result, req |-> req,
     redirect_url |-> redirect_url]

\* GET /api/payment-status/<purchase_id>, for a request the rate limiter
\* lets through.
PaymentStatus(purchase_id) ==
    LET req == [purchase_id |-> purchase_id]
        session_phone == session.customer_phone
    IN
    /\ UNCHANGED <<ledger, bridge, session, recent_failures, now, workers, gap_events, inflight>>
    /\ IF purchase_id \notin PurchaseIds
       THEN resp' = PollResponse(404, "not_found", 0, req)
       ELSE IF session_phone = None
       THEN resp' = PollResponse(403, "Unauthorized", 0, req)
       ELSE IF ~OwnerMatches(session_phone, purchases[purchase_id].customer)
       THEN resp' = PollResponse(403, "Unauthorized owner", 0, req)
       ELSE resp' = PollResponse(200, purchases[purchase_id].status,
                                 IF purchases[purchase_id].status = COMPLETED
                                 THEN purchase_id ELSE 0, req)

(* --------------------------- uza_payment_callback --------------------- *)
SuccessMessage(purchase_id) == [status |-> "SUCCESS", purchase_id |-> purchase_id]

\* The secret check that lets a request without a secret through.
SecretAccepted_MissingPasses(expected_secret, incoming_secret) ==
    expected_secret = None \/ incoming_secret = None \/ incoming_secret = expected_secret

\* Lines 1677-1690: the request passes the secret check.
SecretAccepted(expected_secret, incoming_secret) ==
    expected_secret = None \/ (incoming_secret # None /\ incoming_secret = expected_secret)

\* The handler without its idempotency check.
AlreadyProcessed_Never(p) == FALSE

\* Line 1714: the idempotency check.
AlreadyProcessed(p) == p.status = COMPLETED

\* Lines 1720-1725 for one row: the completed purchase rows.
CompletePurchase(ps, pid) == [ps EXCEPT ![pid].status = COMPLETED]

\* Lines 1723-1725: the asset aggregates after the sale is added.
AddSale(as, asset_id, amount) ==
    [as EXCEPT ![asset_id].total_sales = @ + 1,
               ![asset_id].total_revenue = @ + amount]

\* The rows without the rollback: what the failed transaction had written.
Rollback_Keep(dirty, committed) == dirty

\* Lines 1728-1731: db.session.rollback() discards the pending writes.
Rollback(dirty, committed) == committed

\* deal_id is "" when the payload is empty, has no 'data' or no 'deal_id'.
UzaPaymentCallback(expected_secret, incoming_secret, deal_id, commit_ok) ==
    LET req == [expected_secret |-> expected_secret,
                incoming_secret |-> incoming_secret, deal_id |-> deal_id]
        tried == [expected_secret |-> expected_secret, incoming_secret |-> incoming_secret,
                  deal_id |-> deal_id, commit_ok |-> commit_ok]
        pid == FirstByRef(purchases, deal_id)
    IN
    /\ UNCHANGED <<session, streams, recent_failures, now, workers, inflight>>
    /\ IF ~SecretAccepted(expected_secret, incoming_secret)
       THEN /\ resp' = Response("uza_callback", 403, "error", req)
            /\ UNCHANGED <<ledger, channels, queues, gap_events>>
       ELSE IF deal_id = ""
       THEN /\ resp' = Response("uza_callback", 400, "error", req)
            /\ UNCHANGED <<ledger, channels, queues, gap_events>>
       ELSE IF pid = 0
       THEN /\ resp' = Response("uza_callback", 404, "error", req)
            /\ UNCHANGED <<ledger, channels, queues, gap_events>>
       ELSE IF AlreadyProcessed(purchases[pid])
       THEN /\ resp' = Response("uza_callback", 200, "already_processed", req)
            /\ UNCHANGED <<ledger, channels, queues, gap_events>>
       ELSE IF ~commit_ok
       THEN /\ resp' = Response("uza_callback", 500, "error", tried)
            /\ purchases' = Rollback(CompletePurchase(purchases, pid), purchases)
            /\ assets' = Rollback(AddSale(assets, purchases[pid].asset_id,
                                          purchases[pid].amount_paid), assets)
            /\ UNCHANGED <<sales_credit, channels, queues, gap_events>>
       ELSE /\ assets[purchases[pid].asset_id].total_sales < MaxSales
            /\ purchases' = CompletePurchase(purchases, pid)
            /\ assets' = AddSale(assets, purchases[pid].asset_id, purchases[pid].amount_paid)
            /\ sales_credit' = [sales_credit EXCEPT ![pid] = @ + 1]
            /\ LET chan == purchases[pid].sse_channel_id
                   published == Publish(channels, queues, chan, SuccessMessage(pid))
               IN IF chan # None /\ chan # ""
                  THEN /\ channels' = CleanupChannel(channels, chan)
                       /\ queues' = Collect(published, channels', streams)
                       /\ gap_events' = Queued(channels, streams, chan)
                  ELSE UNCHANGED <<channels, queues, gap_events>>
            /\ resp' = Response("uza_callback", 200, "processed", tried)

(* ------------------------------ library ------------------------------- *)
\* Lines 1960-1964: COMPLETED purchases of the phone made on the given day.
MatchingPurchases(ps, form_phone, purchase_date) ==
    {i \in 1..Len(ps) : /\ ps[i].customer = form_phone
                        /\ ps[i].purchase_date = purchase_date
                        /\ ps[i].status = COMPLETED}

\* POST /library. purchase_date is -1 for a string strptime rejects and -2
\* for an empty field.
LibraryLogin(raw_phone, purchase_date) ==
    LET form_phone == Strip(raw_phone)
        req == [phone_number |-> raw_phone, purchase_date |-> purchase_date]
    IN
    /\ UNCHANGED <<ledger, bridge, now, workers, gap_events, inflight>>
    /\ IF recent_failures >= THROTTLE_RECENT
       THEN /\ resp' = Response("library", 429, "throttled", req)
            /\ UNCHANGED <<session, recent_failures>>
       ELSE IF form_phone = "" \/ purchase_date = -2
       THEN /\ resp' = Response("library", 302, "missing", req)
            /\ UNCHANGED <<session, recent_failures>>
       ELSE IF purchase_date = -1
       THEN /\ resp' = Response("library", 302, "bad_date", req)
            /\ recent_failures' = recent_failures + 1
            /\ UNCHANGED session
       ELSE IF MatchingPurchases(purchases, form_phone, purchase_date) = {}
       THEN /\ resp' = Response("library", 302, "not_found", req)
            /\ recent_failures' = recent_failures + 1
            /\ UNCHANGED session
       ELSE /\ session' = [session EXCEPT !.customer_phone = form_phone,
                                          !.is_verified = TRUE]
            /\ resp' = Response("library", 302, "granted", req)
            /\ UNCHANGED recent_failures

(* ------------------------------- logout ------------------------------- *)
Logout ==
    /\ session' = [session EXCEPT !.customer_phone = None, !.is_verified = FALSE]
    /\ resp' = Response("logout", 302, "logged_out", [none |-> TRUE])
    /\ UNCHANGED <<ledger, bridge, recent_failures, now, workers, gap_events, inflight>>

(* --------------------------- finalize_session ------------------------- *)
\* A finalize that does not compare the session with the purchase.
FinalizeSession_NoOwnerCheck(purchase_id) ==
    LET req == [purchase_id |-> purchase_id]
    IN
    /\ UNCHANGED <<ledger, bridge, recent_failures, now, workers, gap_events, inflight>>
    /\ IF purchase_id \notin PurchaseIds
       THEN /\ resp' = Response("finalize_session", 404, "not_found", req)
            /\ UNCHANGED session
       ELSE IF purchases[purchase_id].status = COMPLETED
       THEN /\ session' = [session EXCEPT !.is_verified = TRUE]
            /\ resp' = Response("finalize_session", 302, "verified", req)
       ELSE /\ resp' = Response("finalize_session", 302, "not_confirmed", req)
            /\ UNCHANGED session

FinalizeSession(purchase_id) ==
    LET req == [purchase_id |-> purchase_id]
        session_phone == session.customer_phone
    IN
    /\ UNCHANGED <<ledger, bridge, recent_failures, now, workers, gap_events, inflight>>
    /\ IF purchase_id \notin PurchaseIds
       THEN /\ resp' = Response("finalize_session", 404, "not_found", req)
            /\ UNCHANGED session
       ELSE IF session_phone = None \/ purchases[purchase_id].customer # session_phone
       THEN /\ resp' = Response("finalize_session", 302, "mismatch", req)
            /\ UNCHANGED session
       ELSE IF purchases[purchase_id].status = COMPLETED
       THEN /\ session' = [session EXCEPT !.is_verified = TRUE]
            /\ resp' = Response("finalize_session", 302, "verified", req)
       ELSE /\ resp' = Response("finalize_session", 302, "not_confirmed", req)
            /\ UNCHANGED session

(* ---------------------------- cancel_payment -------------------------- *)
\* A cancel that clears the identity whether or not it is verified.
CancelPayment_Always ==
    /\ UNCHANGED <<ledger, bridge, recent_failures, now, workers, gap_events, inflight>>
    /\ session' = [session EXCEPT !.customer_phone = None]
    /\ resp' = Response("cancel_payment", 200, "cleared", [none |-> TRUE])

CancelPayment ==
    /\ UNCHANGED <<ledger, bridge, recent_failures, now, workers, gap_events, inflight>>
    /\ IF ~session.is_verified
       THEN /\ session' = [session EXCEPT !.customer_phone = None]
            /\ resp' = Response("cancel_payment", 200, "cleared", [none |-> TRUE])
       ELSE /\ UNCHANGED session
            /\ resp' = Response("cancel_payment", 200, "kept", [none |-> TRUE])

(* ------------------------- creator login / logout --------------------- *)
\* creator_login_verify after a valid TOTP token (the TOTP flow is opaque).
CreatorLogin ==
    /\ session.creator_id = 0
    /\ session' = [session EXCEPT !.creator_id = CREATOR]
    /\ resp' = Response("creator_login", 302, "logged_in", [none |-> TRUE])
    /\ UNCHANGED <<ledger, bridge, recent_failures, now, workers, gap_events, inflight>>

\* creator_logout: session.clear().
CreatorLogout ==
    /\ session' = [customer_phone |-> None, is_verified |-> FALSE, creator_id |-> 0]
    /\ resp' = Response("creator_logout", 302, "logged_out", [none |-> TRUE])
    /\ UNCHANGED <<ledger, bridge, recent_failures, now, workers, gap_events, inflight>>

(* ----------------------------- serve_content -------------------------- *)
IntervalDays(interval) ==
    IF interval = "weekly" THEN 7
    ELSE IF interval = "quarterly" THEN 90
    ELSE IF interval = "yearly" THEN 365
    ELSE 30

\* check_subscription_status: the interval that applies to a purchase row.
PurchaseInterval(p) ==
    LET base == IF AssetInterval(p.asset_id) # None
                THEN AssetInterval(p.asset_id) ELSE "monthly"
    IN IF p.ticket_data # NoTier
       THEN (IF p.ticket_data.interval # None THEN p.ticket_data.interval ELSE base)
       ELSE base

ExpiryDate(p) == p.purchase_date + IntervalDays(PurchaseInterval(p))

\* An expiry test that still serves on the day of expiry.
IsActive_Inclusive(p, today) == today <= ExpiryDate(p)

\* Line 542: is_active = datetime.utcnow() < expiry_date.
IsActive(p, today) == today < ExpiryDate(p)

\* Lines 485-489: the COMPLETED purchases of the customer for the asset
\* with the latest purchase_date; .first() returns one of them.
LatestCompleted(ps, phone, asset_id) ==
    LET done == {i \in 1..Len(ps) : /\ ps[i].customer = phone
                                    /\ ps[i].asset_id = asset_id
                                    /\ ps[i].status = COMPLETED}
    IN {i \in done : \A j \in done : ps[j].purchase_date <= ps[i].purchase_date}

\* The session check without the is_verified test.
SessionVerified_PhoneOnly(sess) == sess.customer_phone # None

\* Line 474: the strict session check.
SessionVerified(sess) == sess.customer_phone # None /\ sess.is_verified

\* The response of serve_content when the purchase query returned row
\* `purchase` (0 for no row).
ContentDecision(sess, ps, file_id, purchase, today) ==
    LET asset_id == AssetOfFile(file_id)
        is_creator == sess.creator_id # 0 /\ AssetCreator(asset_id) = sess.creator_id
    IN IF ~SessionVerified(sess) THEN "forbidden"
       ELSE IF file_id \notin FileIds THEN "not_found"
       ELSE IF ~CustomerExists(ps, sess.customer_phone) THEN "forbidden"
       ELSE IF purchase = 0 /\ ~is_creator THEN "forbidden"
       ELSE IF purchase # 0 /\ AssetIsSubscription(ps[purchase].asset_id)
               /\ ~IsActive(ps[purchase], today) THEN "renew"
       ELSE "file"

ContentCode(result) ==
    IF result = "forbidden" THEN 403
    ELSE IF result = "not_found" THEN 404
    ELSE IF result = "renew" THEN 302
    ELSE 200

ServeContent(file_id) ==
    LET found == IF file_id \in FileIds
                 THEN LatestCompleted(purchases, session.customer_phone, AssetOfFile(file_id))
                 ELSE {}
    IN
    /\ \E purchase \in (IF found = {} THEN {0} ELSE found) :
          LET result == ContentDecision(session, purchases, file_id, purchase, now)
          IN resp' = Response("serve_content", ContentCode(result), result,
                              [file_id |-> file_id])
    /\ UNCHANGED <<ledger, bridge, session, recent_failures, now, workers, gap_events, inflight>>

(* -------------------------------- clock ------------------------------- *)
\* datetime.utcnow() moves on to a later day between two requests.
Tick(day) ==
    /\ day > now
    /\ now' = day
    /\ resp' = Response("tick", 0, None, [day |-> day])
    /\ UNCHANGED <<ledger, bridge, session, recent_failures, workers, gap_events, inflight>>

(* ---------------------------- payment_stream -------------------------- *)
\* SseManager.subscribe: the registered queue, or a new Queue(10).
FreeQueue(qs) == CHOOSE q \in QueueIds \ DOMAIN qs : \A r \in QueueIds \ DOMAIN qs : q <= r

\* A subscribe that always registers a new Queue(10).
StreamOpen_NewQueue(s, channel_id) ==
    /\ streams[s].pc = "closed"
    /\ QueueIds \ DOMAIN queues # {}
    /\ LET q == FreeQueue(queues)
       IN /\ channels' = [c \in DOMAIN channels \cup {channel_id} |->
                            IF c = channel_id THEN q ELSE channels[c]]
          /\ streams' = [streams EXCEPT ![s] = [pc |-> "open",
                            channel_id |-> channel_id, q |-> q]]
          /\ queues' = Collect([r \in DOMAIN queues \cup {q} |->
                                   IF r = q THEN << >> ELSE queues[r]], channels', streams')
    /\ gap_events' = gap_events \ {channel_id}
    /\ resp' = Response("payment_stream", 200, "subscribed",
                        [stream |-> s, channel_id |-> channel_id])
    /\ UNCHANGED <<ledger, session, recent_failures, now, workers, inflight>>

StreamOpen(s, channel_id) ==
    /\ streams[s].pc = "closed"
    /\ IF channel_id \in DOMAIN channels
       THEN /\ streams' = [streams EXCEPT ![s] = [pc |-> "open", channel_id |-> channel_id,
                                                  q |-> channels[channel_id]]]
            /\ UNCHANGED <<channels, queues>>
       ELSE /\ QueueIds \ DOMAIN queues # {}
            /\ LET q == FreeQueue(queues)
               IN /\ channels' = [c \in DOMAIN channels \cup {channel_id} |->
                                    IF c = channel_id THEN q ELSE channels[c]]
                  /\ queues' = [r \in DOMAIN queues \cup {q} |->
                                    IF r = q THEN << >> ELSE queues[r]]
                  /\ streams' = [streams EXCEPT ![s] = [pc |-> "open",
                                    channel_id |-> channel_id, q |-> q]]
    /\ gap_events' = gap_events \ {channel_id}
    /\ resp' = Response("payment_stream", 200, "subscribed",
                        [stream |-> s, channel_id |-> channel_id])
    /\ UNCHANGED <<ledger, session, recent_failures, now, workers, inflight>>

\* A generator that stops after SUCCESS only.
StreamGet_SuccessOnly(s) ==
    /\ streams[s].pc = "open"
    /\ LET q == streams[s].q
       IN IF queues[q] # << >>
          THEN LET message == Head(queues[q])
                   closed == [streams EXCEPT ![s] = [pc |-> "closed", channel_id |-> None, q |-> 0]]
               IN /\ resp' = Response("payment_stream", 200, message.status, [stream |-> s])
                  /\ IF message.status = "SUCCESS"
                     THEN /\ streams' = closed
                          /\ queues' = Collect([queues EXCEPT ![q] = Tail(@)], channels, closed)
                     ELSE /\ streams' = streams
                          /\ queues' = [queues EXCEPT ![q] = Tail(@)]
          ELSE /\ resp' = Response("payment_stream", 200, "heartbeat", [stream |-> s])
               /\ UNCHANGED <<streams, queues>>
    /\ UNCHANGED <<ledger, session, channels, recent_failures, now, workers, gap_events, inflight>>

\* One turn of the generator's loop: relay the head of the queue, and stop
\* after a terminal message; a heartbeat when q.get times out.
StreamGet(s) ==
    /\ streams[s].pc = "open"
    /\ LET q == streams[s].q
       IN IF queues[q] # << >>
          THEN LET message == Head(queues[q])
                   closed == [streams EXCEPT ![s] = [pc |-> "closed", channel_id |-> None, q |-> 0]]
               IN /\ resp' = Response("payment_stream", 200, message.status, [stream |-> s])
                  /\ IF message.status \in {"SUCCESS", "FAILED"}
                     THEN /\ streams' = closed
                          /\ queues' = Collect([queues EXCEPT ![q] = Tail(@)], channels, closed)
                     ELSE /\ streams' = streams
                          /\ queues' = [queues EXCEPT ![q] = Tail(@)]
          ELSE /\ resp' = Response("payment_stream", 200, "heartbeat", [stream |-> s])
               /\ UNCHANGED <<streams, queues>>
    /\ UNCHANGED <<ledger, session, channels, recent_failures, now, workers, gap_events, inflight>>

\* GeneratorExit: the client went away; the registry entry stays.
StreamDisconnect(s) ==
    /\ streams[s].pc = "open"
    /\ streams' = [streams EXCEPT ![s] = [pc |-> "closed", channel_id |-> None, q |-> 0]]
    /\ queues' = Collect(queues, channels, streams')
    /\ resp' = Response("payment_stream", 200, "disconnected", [stream |-> s])
    /\ UNCHANGED <<ledger, session, channels, recent_failures, now, workers, gap_events, inflight>>

(* ------------------- SseManager, method by method -------------------- *)
\* sse_manager.publish called on its own: the outcome is the branch taken
\* (queued, "Message dropped", "non-existent channel").
PublishOutcome(chs, qs, channel_id) ==
    IF channel_id \notin DOMAIN chs THEN "no_channel"
    ELSE IF Len(qs[chs[channel_id]]) < QUEUE_SIZE THEN "queued"
    ELSE "dropped"

SsePublish(channel_id, message) ==
    /\ queues' = Publish(channels, queues, channel_id, message)
    /\ gap_events' = Queued(channels, streams, channel_id)
    /\ resp' = Response("publish", 0, PublishOutcome(channels, queues, channel_id),
                        [channel_id |-> channel_id, message |-> message])
    /\ UNCHANGED <<ledger, session, channels, streams, recent_failures, now, workers, inflight>>

\* sse_manager.cleanup_channel called on its own.
SseCleanupChannel(channel_id) ==
    /\ channels' = CleanupChannel(channels, channel_id)
    /\ queues' = Collect(queues, channels', streams)
    /\ resp' = Response("cleanup_channel", 0, None, [channel_id |-> channel_id])
    /\ UNCHANGED <<ledger, session, streams, recent_failures, now, workers, gap_events, inflight>>

\* An unsubscribe that drops the registry entry.
SseUnsubscribe_Removes(channel_id) ==
    /\ channels' = CleanupChannel(channels, channel_id)
    /\ queues' = Collect(queues, channels', streams)
    /\ resp' = Response("unsubscribe", 0, None, [channel_id |-> channel_id])
    /\ UNCHANGED <<ledger, session, streams, recent_failures, now, workers, gap_events, inflight>>

\* sse_manager.unsubscribe: the body is `pass`.
SseUnsubscribe(channel_id) ==
    /\ resp' = Response("unsubscribe", 0, None, [channel_id |-> channel_id])
    /\ UNCHANGED <<ledger, bridge, session, recent_failures, now, workers, gap_events, inflight>>

(* ---------------- SseManager, one lock step at a time ----------------- *)
\* Thread t calls a method of sse_manager and reaches `with self.lock:`.
LockCall(t, op, channel_id) ==
    /\ calls[t].pc = "idle"
    /\ calls' = [calls EXCEPT ![t] = [pc |-> "acquiring", op |-> op, channel_id |-> channel_id]]
    /\ UNCHANGED <<ledger, bridge, session, recent_failures, now, workers, gap_events,
                   lock, initiating, resp>>

\* threading.Lock.acquire: one thread at a time gets past it.
LockAcquire(t) ==
    /\ calls[t].pc = "acquiring"
    /\ lock = None
    /\ lock' = t
    /\ calls' = [calls EXCEPT ![t].pc = "locked"]
    /\ UNCHANGED <<ledger, bridge, session, recent_failures, now, workers, gap_events,
                   initiating, resp>>

\* A publish whose put waits for room in the queue while the lock is held.
LockedBody_BlockingPut(t) ==
    LET channel_id == calls[t].channel_id
        op == calls[t].op
    IN
    /\ calls[t].pc = "locked"
    /\ lock' = None
    /\ calls' = [calls EXCEPT ![t] = IdleCall]
    /\ resp' = Response(op, 0,
                        IF op = "publish" THEN PublishOutcome(channels, queues, channel_id)
                        ELSE IF op = "subscribe" THEN "subscribed" ELSE None,
                        [thread |-> t, channel_id |-> channel_id])
    /\ CASE op = "subscribe" ->
              /\ IF channel_id \in DOMAIN channels
                 THEN /\ streams' = [streams EXCEPT ![t] = [pc |-> "open",
                                         channel_id |-> channel_id, q |-> channels[channel_id]]]
                      /\ UNCHANGED <<channels, queues>>
                 ELSE /\ QueueIds \ DOMAIN queues # {}
                      /\ LET q == FreeQueue(queues)
                         IN /\ channels' = [c \in DOMAIN channels \cup {channel_id} |->
                                              IF c = channel_id THEN q ELSE channels[c]]
                            /\ queues' = [r \in DOMAIN queues \cup {q} |->
                                              IF r = q THEN << >> ELSE queues[r]]
                            /\ streams' = [streams EXCEPT ![t] = [pc |-> "open",
                                              channel_id |-> channel_id, q |-> q]]
              /\ gap_events' = gap_events \ {channel_id}
         [] op = "publish" ->
              /\ PublishOutcome(channels, queues, channel_id) # "dropped"
              /\ queues' = Publish(channels, queues, channel_id, SuccessMessage(1))
              /\ gap_events' = Queued(channels, streams, channel_id)
              /\ UNCHANGED <<channels, streams>>
         [] op = "cleanup_channel" ->
              /\ channels' = CleanupChannel(channels, channel_id)
              /\ queues' = Collect(queues, channels', streams)
              /\ UNCHANGED <<streams, gap_events>>
         [] op = "unsubscribe" ->
              UNCHANGED <<bridge, gap_events>>
    /\ UNCHANGED <<ledger, session, recent_failures, now, workers, initiating>>

\* The body of the `with self.lock:` block of the method thread t is in,
\* and the release of the lock on leaving it.
LockedBody(t) ==
    LET channel_id == calls[t].channel_id
        op == calls[t].op
    IN
    /\ calls[t].pc = "locked"
    /\ lock' = None
    /\ calls' = [calls EXCEPT ![t] = IdleCall]
    /\ resp' = Response(op, 0,
                        IF op = "publish" THEN PublishOutcome(channels, queues, channel_id)
                        ELSE IF op = "subscribe" THEN "subscribed" ELSE None,
                        [thread |-> t, channel_id |-> channel_id])
    /\ CASE op = "subscribe" ->
              /\ IF channel_id \in DOMAIN channels
                 THEN /\ streams' = [streams EXCEPT ![t] = [pc |-> "open",
                                         channel_id |-> channel_id, q |-> channels[channel_id]]]
                      /\ UNCHANGED <<channels, queues>>
                 ELSE /\ QueueIds \ DOMAIN queues # {}
                      /\ LET q == FreeQueue(queues)
                         IN /\ channels' = [c \in DOMAIN channels \cup {channel_id} |->
                                              IF c = channel_id THEN q ELSE channels[c]]
                            /\ queues' = [r \in DOMAIN queues \cup {q} |->
                                              IF r = q THEN << >> ELSE queues[r]]
                            /\ streams' = [streams EXCEPT ![t] = [pc |-> "open",
                                              channel_id |-> channel_id, q |-> q]]
              /\ gap_events' = gap_events \ {channel_id}
         [] op = "publish" ->
              /\ queues' = Publish(channels, queues, channel_id, SuccessMessage(1))
              /\ gap_events' = Queued(channels, streams, channel_id)
              /\ UNCHANGED <<channels, streams>>
         [] op = "cleanup_channel" ->
              /\ channels' = CleanupChannel(channels, channel_id)
              /\ queues' = Collect(queues, channels', streams)
              /\ UNCHANGED <<streams, gap_events>>
         [] op = "unsubscribe" ->
              UNCHANGED <<bridge, gap_events>>
    /\ UNCHANGED <<ledger, session, recent_failures, now, workers, initiating>>

(* --------------- uza_payment_callback, statement by statement --------- *)
\* The same handler as UzaPaymentCallback, for requests served by
\* concurrent workers: each step is one database round trip (SQLite, no
\* row lock, no SELECT ... FOR UPDATE) or one SseManager call.  The ORM
\* objects of a request live in workers[w].

\* Lines 1708-1716: SELECT the purchase by deal id, then the status check.
CallbackLookup(w, deal_id) ==
    LET pid == FirstByRef(purchases, deal_id)
        req == [worker |-> w, deal_id |-> deal_id]
    IN
    /\ workers[w].pc \in {"idle", "done"}
    /\ IF pid = 0
       THEN /\ workers' = [workers EXCEPT ![w] = [IdleWorker EXCEPT !.pc = "done",
                                !.deal_id = deal_id, !.code = 404]]
            /\ resp' = Response("uza_callback", 404, "error", req)
       ELSE IF AlreadyProcessed(purchases[pid])
       THEN /\ workers' = [workers EXCEPT ![w] = [IdleWorker EXCEPT !.pc = "done",
                                !.deal_id = deal_id, !.purchase = pid, !.code = 200]]
            /\ resp' = Response("uza_callback", 200, "already_processed", req)
       ELSE /\ workers' = [workers EXCEPT ![w] = [IdleWorker EXCEPT !.pc = "loaded",
                                !.deal_id = deal_id, !.purchase = pid]]
            /\ UNCHANGED resp
    /\ UNCHANGED <<ledger, bridge, session, recent_failures, now, gap_events, inflight>>

\* Lines 1720-1725: purchase.asset is lazily SELECTed here, and the new
\* aggregates are computed in Python from the values just read.
CallbackLoadAsset(w) ==
    LET p == purchases[workers[w].purchase]
    IN
    /\ workers[w].pc = "loaded"
    /\ assets[p.asset_id].total_sales < MaxSales
    /\ workers' = [workers EXCEPT ![w].pc = "dirty",
                        ![w].total_sales = assets[p.asset_id].total_sales + 1,
                        ![w].total_revenue = assets[p.asset_id].total_revenue + p.amount_paid]
    /\ UNCHANGED <<ledger, bridge, session, recent_failures, now, gap_events, resp, inflight>>

\* Lines 1727-1731: flush the two UPDATEs and commit, or roll back.
CallbackCommit(w, commit_ok) ==
    LET pid == workers[w].purchase
        asset_id == purchases[pid].asset_id
    IN
    /\ workers[w].pc = "dirty"
    /\ IF commit_ok
       THEN /\ purchases' = CompletePurchase(purchases, pid)
            /\ assets' = [assets EXCEPT ![asset_id] =
                              [total_sales |-> workers[w].total_sales,
                               total_revenue |-> workers[w].total_revenue]]
            /\ sales_credit' = [sales_credit EXCEPT ![pid] = @ + 1]
            /\ workers' = [workers EXCEPT ![w].pc = "committed"]
            /\ UNCHANGED resp
       ELSE /\ workers' = [workers EXCEPT ![w].pc = "done", ![w].code = 500]
            /\ resp' = Response("uza_callback", 500, "error",
                                [worker |-> w, deal_id |-> workers[w].deal_id])
            /\ UNCHANGED ledger
    /\ UNCHANGED <<bridge, session, recent_failures, now, gap_events, inflight>>

\* Lines 1734-1739: sse_manager.publish.
CallbackPublish(w) ==
    LET pid == workers[w].purchase
    IN
    /\ workers[w].pc = "committed"
    /\ queues' = Publish(channels, queues, purchases[pid].sse_channel_id, SuccessMessage(pid))
    /\ workers' = [workers EXCEPT ![w].pc = "published"]
    /\ gap_events' = Queued(channels, streams, purchases[pid].sse_channel_id)
    /\ UNCHANGED <<ledger, channels, streams, session, recent_failures, now, resp, inflight>>

\* Lines 1743-1749: sse_manager.cleanup_channel, then the 200 response.
CallbackCleanup(w) ==
    LET pid == workers[w].purchase
    IN
    /\ workers[w].pc = "published"
    /\ channels' = CleanupChannel(channels, purchases[pid].sse_channel_id)
    /\ queues' = Collect(queues, channels', streams)
    /\ workers' = [workers EXCEPT ![w].pc = "done", ![w].code = 200]
    /\ resp' = Response("uza_callback", 200, "processed",
                        [worker |-> w, deal_id |-> workers[w].deal_id])
    /\ UNCHANGED <<ledger, streams, session, recent_failures, now, gap_events, inflight>>

(* ------------------------- the specifications ------------------------- *)
\* Spec: the ledger under requests handled one at a time.
Next ==
    \/ \E pk \in BOOLEAN, gw \in {"error", "X", "Y"} :
          InitiatePayment("A", 1, "c1", NoTier, pk, gw)
    \/ \E pid \in 1..MaxPurchases, ok \in BOOLEAN :
          RetryPayment("X", "A", pid, TRUE, ok)
    \/ \E es \in {None, "s"}, is \in {None, "s"}, d \in {"", "X", "Y"}, ok \in BOOLEAN :
          UzaPaymentCallback(es, is, d, ok)
    \/ StreamOpen("s1", "c1")
    \/ StreamGet("s1")

Spec == Init /\ [][Next]_vars

\* SpecWebhook: the webhook endpoint under every kind of request.
NextWebhook ==
    \/ \E gw \in {"error", "X"} : InitiatePayment("A", 1, "c1", NoTier, TRUE, gw)
    \/ \E es \in {None, "s"}, is \in {None, "s", "bad"}, d \in {"", "X", "Y"}, ok \in BOOLEAN :
          UzaPaymentCallback(es, is, d, ok)
    \/ StreamOpen("s1", "c1")
    \/ StreamGet("s1")

SpecWebhook == Init /\ [][NextWebhook]_vars

\* SpecSession: the customer session over the ledger.
NextSession ==
    \/ \E phone \in Phones : InitiatePayment(phone, 1, "c1", NoTier, TRUE, "X")
    \/ \E phone \in RawPhones, pid \in 1..MaxPurchases, ok \in BOOLEAN :
          RetryPayment("X", phone, pid, TRUE, ok)
    \/ UzaPaymentCallback(None, None, "X", TRUE)
    \/ \E pid \in 1..MaxPurchases : FinalizeSession(pid)
    \/ CancelPayment
    \/ \E phone \in Phones, d \in {-1, 0} : LibraryLogin(phone, d)
    \/ Logout

SpecSession == Init /\ [][NextSession]_vars

\* SpecContent: the content gate.
NextContent ==
    \/ \E phone \in Phones, a \in AssetIds, gw \in {"error", "X"} :
          InitiatePayment(phone, a, "c1", NoTier, TRUE, gw)
    \/ \E phone \in Phones, pid \in 1..MaxPurchases :
          RetryPayment("X", phone, pid, TRUE, TRUE)
    \/ UzaPaymentCallback(None, None, "X", TRUE)
    \/ \E pid \in 1..MaxPurchases : FinalizeSession(pid)
    \/ Logout
    \/ CreatorLogin
    \/ CreatorLogout
    \/ \E f \in FileIds : ServeContent(f)

SpecContent == Init /\ [][NextContent]_vars

\* SpecRace: two webhook requests in flight at once.
NextRace ==
    \/ \E gw \in {"error", "X"} : InitiatePayment("A", 1, "c1", NoTier, TRUE, gw)
    \/ \E w \in WorkerIds : CallbackLookup(w, "X")
    \/ \E w \in WorkerIds : CallbackLoadAsset(w)
    \/ \E w \in WorkerIds, ok \in BOOLEAN : CallbackCommit(w, ok)
    \/ \E w \in WorkerIds : CallbackPublish(w)
    \/ \E w \in WorkerIds : CallbackCleanup(w)
    \/ StreamOpen("s1", "c1")
    \/ StreamGet("s1")

SpecRace == Init /\ [][NextRace]_vars

\* SpecPoll: the status poll over the ledger and the claimed identity.
NextPoll ==
    \/ \E phone \in Phones, gw \in {"error", "X"} :
          InitiatePayment(phone, 1, "c1", NoTier, TRUE, gw)
    \/ \E phone \in RawPhones, pid \in 1..MaxPurchases, ok \in BOOLEAN :
          RetryPayment("X", phone, pid, TRUE, ok)
    \/ UzaPaymentCallback(None, None, "X", TRUE)
    \/ \E pid \in 1..(MaxPurchases + 1) : PaymentStatus(pid)
    \/ Logout

SpecPoll == Init /\ [][NextPoll]_vars

\* SpecBridge: webhooks against streams that connect, read and go away.
NextBridge ==
    \/ \E gw \in GatewayRefs : InitiatePayment("A", 1, "c1", NoTier, TRUE, gw)
    \/ \E d \in GatewayRefs : UzaPaymentCallback(None, None, d, TRUE)
    \/ \E s \in StreamIds : StreamOpen(s, "c1")
    \/ \E s \in StreamIds : StreamGet(s)
    \/ \E s \in StreamIds : StreamDisconnect(s)

SpecBridge == Init /\ [][NextBridge]_vars

\* SpecManager: the SseManager object under any order of calls.
NextManager ==
    \/ \E s \in StreamIds : StreamOpen(s, "c1")
    \/ \E s \in StreamIds : StreamGet(s)
    \/ \E s \in StreamIds : StreamDisconnect(s)
    \/ SsePublish("c1", SuccessMessage(1))
    \/ SseCleanupChannel("c1")
    \/ SseUnsubscribe("c1")

SpecManager == Init /\ [][NextManager]_vars

\* SpecSubscription: a subscription bought under each tier, as days pass.
SubscriptionTiers == {NoTier, WeeklyTier, QuarterlyTier, YearlyTier, PlainTier}
Days == {6, 7, 29, 30, 89, 90, 364, 365}

NextSubscription ==
    \/ \E tier \in SubscriptionTiers : InitiatePayment("A", 2, "c1", tier, TRUE, "X")
    \/ UzaPaymentCallback(None, None, "X", TRUE)
    \/ \E pid \in 1..MaxPurchases : FinalizeSession(pid)
    \/ \E day \in Days : Tick(day)
    \/ ServeContent(2)

SpecSubscription == Init /\ [][NextSubscription]_vars

\* SpecLock: threads inside SseManager's methods, one lock step at a time,
\* beside generators blocked in q.get.  A thread at the lock gets it when it
\* is free, and a thread inside the block runs to its end: both weakly fair.
CallerOps == {"publish", "cleanup_channel", "unsubscribe"}

NextLock ==
    \/ \E s \in StreamIds : streams[s].pc = "closed" /\ LockCall(s, "subscribe", "c1")
    \/ \E t \in CallerIds, op \in CallerOps : LockCall(t, op, "c1")
    \/ \E t \in ThreadIds : LockAcquire(t)
    \/ \E t \in ThreadIds : LockedBody(t)
    \/ \E s \in StreamIds : StreamGet(s)
    \/ \E s \in StreamIds : StreamDisconnect(s)

SpecLock ==
    /\ Init
    /\ [][NextLock]_vars
    /\ WF_vars(\E t \in ThreadIds : LockAcquire(t))
    /\ WF_vars(\E t \in ThreadIds : LockedBody(t))

\* SpecAttach: webhooks arriving while an initiate_payment request is
\* between its two commits.
NextAttach ==
    \/ \E gw \in GatewayOutcomes, c \in ChannelIds : InitiateBegin("A", 1, c, NoTier, gw)
    \/ InitiateFinish
    \/ \E d \in GatewayRefs : UzaPaymentCallback(None, None, d, TRUE)

SpecAttach == Init /\ [][NextAttach]_vars

\* SpecInitiate: initiate_payment under every kind of request, from
\* sessions with no identity, an unverified one and a verified one.
NextInitiate ==
    \/ \E phone \in RawPhones \cup {""}, asset_id \in {0, 1, 9},
          channel_id \in {"", "c1"}, pk \in BOOLEAN :
          InitiatePayment(phone, asset_id, channel_id, NoTier, pk, "X")
    \/ UzaPaymentCallback(None, None, "X", TRUE)
    \/ \E pid \in 1..MaxPurchases : FinalizeSession(pid)
    \/ Logout

SpecInitiate == Init /\ [][NextInitiate]_vars

\* SpecStream: streams reading a channel that receives terminal and
\* non-terminal messages, at most MaxQueued waiting at a time.
FailedMessage(purchase_id) == [status |-> "FAILED", purchase_id |-> purchase_id]
PendingMessage(purchase_id) == [status |-> "PENDING", purchase_id |-> purchase_id]
StreamMessages == {SuccessMessage(1), FailedMessage(1), PendingMessage(1)}

NextStream ==
    \/ \E s \in StreamIds : StreamOpen(s, "c1")
    \/ \E s \in StreamIds : StreamGet(s)
    \/ \E s \in StreamIds : StreamDisconnect(s)
    \/ \E m \in StreamMessages :
          /\ "c1" \in DOMAIN channels => Len(queues[channels["c1"]]) < MaxQueued
          /\ SsePublish("c1", m)

SpecStream == Init /\ [][NextStream]_vars

\* SpecLive: one webhook request at a time, statement by statement, against
\* a stream.  A request being handled runs to its response, and the
\* generator's q.get(timeout=5) always returns, so both are weakly fair;
\* requests arriving (initiate, webhook, connect, disconnect) and calls of
\* unsubscribe are not.
NextLive ==
    \/ \E gw \in {"error", "X"} : InitiatePayment("A", 1, "c1", NoTier, TRUE, gw)
    \/ CallbackLookup(1, "X")
    \/ CallbackLoadAsset(1)
    \/ \E ok \in BOOLEAN : CallbackCommit(1, ok)
    \/ CallbackPublish(1)
    \/ CallbackCleanup(1)
    \/ \E c \in ChannelIds : StreamOpen("s1", c)
    \/ StreamGet("s1")
    \/ StreamDisconnect("s1")
    \/ SseUnsubscribe("c1")

SpecLive ==
    /\ Init
    /\ [][NextLive]_vars
    /\ WF_vars(CallbackLoadAsset(1))
    /\ WF_vars(\E ok \in BOOLEAN : CallbackCommit(1, ok))
    /\ WF_vars(CallbackPublish(1))
    /\ WF_vars(CallbackCleanup(1))
    /\ WF_vars(StreamGet("s1"))

(* ------------------------------ properties ---------------------------- *)
\* Terminal purchase states of the ledger.
Terminal == {COMPLETED, FAILED}

\* The purchase a deal id names: the row with the lowest id holding it.
Names(deal_id, i) ==
    /\ i \in 1..Len(purchases)
    /\ purchases[i].payment_gateway_ref = deal_id
    /\ \A j \in 1..(i - 1) : purchases[j].payment_gateway_ref # deal_id

\* A webhook request that is not stopped by the secret check or by payload
\* validation, and so reaches the lookup of its deal id.
ReachesLookup(r) ==
    /\ r.op = "uza_callback"
    /\ r.req.deal_id # ""
    /\ (r.req.expected_secret = None \/ r.req.incoming_secret = r.req.expected_secret)

\* C1: once a purchase attempt is COMPLETED or FAILED its status never takes
\* a different value again, whatever initiate-payment, retry-payment or
\* webhook request is handled next.
C1_TerminalStatusNeverChanges ==
    [][\A i \in 1..Len(purchases) :
          purchases[i].status \in Terminal => purchases'[i].status = purchases[i].status]_vars

\* C2: every purchase attempt has added its sale to the asset's total_sales
\* and its amount to total_revenue at most once.
C2_SaleAddedAtMostOncePerAttempt ==
    \A i \in 1..Len(sales_credit) : sales_credit[i] <= 1

\* C3: once two concurrently processed webhook requests for the same deal
\* id have both been answered 200, the attempt is COMPLETED and the asset's
\* total_sales and total_revenue hold exactly one sale of that attempt.
C3_ConcurrentWebhooksCountOnce ==
    (\A w \in WorkerIds : /\ workers[w].pc = "done"
                          /\ workers[w].code = 200
                          /\ workers[w].deal_id = "X")
    => \A i \in 1..Len(purchases) :
          Names("X", i) =>
             /\ purchases[i].status = COMPLETED
             /\ assets[purchases[i].asset_id].total_sales = 1
             /\ assets[purchases[i].asset_id].total_revenue = purchases[i].amount_paid

\* C4: the session becomes verified for an identity only in a
\* finalize-session or library-login step that found a COMPLETED attempt of
\* that identity.
C4_VerifiedOnlyByConfirmedAttempt ==
    [][(/\ session'.is_verified
        /\ session'.customer_phone # None
        /\ ~(session.is_verified /\ Strip(session.customer_phone) = Strip(session'.customer_phone)))
       => /\ resp'.op \in {"finalize_session", "library"}
          /\ \E i \in 1..Len(purchases) :
                /\ purchases[i].customer = session'.customer_phone
                /\ purchases[i].status = COMPLETED]_vars

\* C5: a content request from a session that is not the asset's creator is
\* answered with the file only when the session has an identity, is
\* verified, and that customer holds a COMPLETED attempt for the asset of
\* the requested file; in every other case it is answered 403.
C5_HasCompletedPurchase ==
    \E i \in 1..Len(purchases) :
        /\ purchases[i].customer = session.customer_phone
        /\ purchases[i].asset_id = AssetOfFile(resp.req.file_id)
        /\ purchases[i].status = COMPLETED

C5_ContentOnlyForVerifiedPurchaser ==
    (resp.op = "serve_content" /\ session.creator_id # AssetCreator(AssetOfFile(resp.req.file_id)))
    => IF session.customer_phone # None /\ session.is_verified /\ C5_HasCompletedPurchase
       THEN resp.code # 403
       ELSE resp.code = 403

C5_Witness ==
    /\ resp.op = "serve_content"
    /\ resp.result = "file"
    /\ session.creator_id = 0
    /\ session.is_verified
    /\ \E i \in 1..Len(purchases) :
          /\ purchases[i].customer = session.customer_phone
          /\ purchases[i].asset_id # AssetOfFile(resp.req.file_id)
          /\ purchases[i].status # COMPLETED

\* C6: when an initiate-payment or retry-payment request replaces the
\* session's identity by a different one, the session is not verified
\* afterwards.
C6_IdentitySwitchClearsVerified ==
    [][(/\ resp'.op \in {"initiate_payment", "retry_payment"}
        /\ session.customer_phone # None
        /\ session'.customer_phone # None
        /\ Strip(session'.customer_phone) # Strip(session.customer_phone))
       => ~session'.is_verified]_vars

\* C7: a webhook that reaches the lookup and names a COMPLETED attempt is
\* answered 200 "already processed" and changes neither the purchases nor
\* the asset aggregates; one that names an attempt not yet COMPLETED and is
\* answered 200 leaves it COMPLETED with exactly one sale added, so the
\* next webhook with the same deal id adds nothing.
C7_CompletedWebhookIsIdempotent ==
    [][ReachesLookup(resp') =>
        \A i \in 1..Len(purchases) :
           Names(resp'.req.deal_id, i) =>
              IF purchases[i].status = COMPLETED
              THEN /\ resp'.code = 200
                   /\ resp'.result = "already_processed"
                   /\ purchases' = purchases
                   /\ assets' = assets
              ELSE resp'.code = 200 =>
                   /\ purchases'[i].status = COMPLETED
                   /\ assets'[purchases[i].asset_id].total_sales
                         = assets[purchases[i].asset_id].total_sales + 1]_vars

C7_Witness ==
    /\ resp.op = "uza_callback"
    /\ resp.result = "already_processed"
    /\ \E i \in 1..Len(purchases) :
          /\ purchases[i].payment_gateway_ref = resp.req.deal_id
          /\ purchases[i].status = COMPLETED
          /\ sales_credit[i] = 1

\* C8: no two purchase attempts hold the same non-null gateway_ref.
C8_GatewayRefUnique ==
    \A i, j \in 1..Len(purchases) :
        (i # j /\ purchases[i].payment_gateway_ref # None)
        => purchases[i].payment_gateway_ref # purchases[j].payment_gateway_ref

\* C9: a webhook whose deal id is held by no attempt is rejected (404 once
\* it has passed the secret check, 403 when the secret check refused it)
\* and changes no purchase, no asset aggregate, no registry entry and no
\* queue.
C9_UnknownRefRejected ==
    [][(/\ resp'.op = "uza_callback"
        /\ resp'.req.deal_id # ""
        /\ \A i \in 1..Len(purchases) : purchases[i].payment_gateway_ref # resp'.req.deal_id)
       => /\ resp'.code = (IF ReachesLookup(resp') THEN 404 ELSE 403)
          /\ purchases' = purchases
          /\ assets' = assets
          /\ channels' = channels
          /\ queues' = queues]_vars

C9_Witness ==
    /\ ReachesLookup(resp)
    /\ resp.code = 404
    /\ channels # << >>
    /\ \E i \in 1..Len(purchases) :
          /\ purchases[i].status = PENDING
          /\ purchases[i].payment_gateway_ref \notin {None, resp.req.deal_id}

\* C10: after initiate-payment answered with a failure for an attempt it
\* created, that attempt is not PENDING with a null gateway_ref, and it is
\* FAILED when the gateway call was made and failed.
C10_FailedInitiateLeavesNoPendingAttempt ==
    (resp.op = "initiate_payment" /\ resp.code = 500)
    => LET p == purchases[Len(purchases)]
       IN /\ ~(p.status = PENDING /\ p.payment_gateway_ref = None)
          /\ (resp.req.uza_pk /\ resp.req.gw \notin GatewayRefs) => p.status = FAILED

\* C11: a retry-payment request that names an existing FAILED or COMPLETED
\* attempt and goes on to the gateway leaves every field of that attempt as
\* it was, and, when it succeeds, has added a new attempt to the ledger.
C11_RetryCreatesNewAttempt ==
    [][(/\ resp'.op = "retry_payment"
        /\ resp'.code \in {200, 500}
        /\ resp'.req.purchase_id \in 1..Len(purchases)
        /\ purchases[resp'.req.purchase_id].status \in Terminal)
       => /\ purchases'[resp'.req.purchase_id] = purchases[resp'.req.purchase_id]
          /\ resp'.code = 200 => Len(purchases') = Len(purchases) + 1]_vars

\* A webhook request whose transaction was attempted and failed to commit.
CommitFailed(r) ==
    /\ r.op = "uza_callback"
    /\ "commit_ok" \in DOMAIN r.req
    /\ ~r.req.commit_ok

\* C12: a webhook whose commit fails is answered with a non-2xx status and
\* leaves the purchases, the asset aggregates, the registry and every queue
\* as they were; when the next request is a webhook for the same deal id
\* that is answered 200, the attempt is COMPLETED and exactly one sale of it
\* has been added to the aggregates.
C12_FailedCommitRollsBack ==
    [][/\ CommitFailed(resp') =>
             /\ resp'.code \notin 200..299
             /\ purchases' = purchases
             /\ assets' = assets
             /\ channels' = channels
             /\ queues' = queues
       /\ (/\ CommitFailed(resp)
           /\ ReachesLookup(resp')
           /\ resp'.req.deal_id = resp.req.deal_id
           /\ resp'.code = 200)
          => \A i \in 1..Len(purchases) :
                Names(resp'.req.deal_id, i) =>
                   /\ purchases'[i].status = COMPLETED
                   /\ assets'[purchases[i].asset_id].total_sales
                         = assets[purchases[i].asset_id].total_sales + 1
                   /\ assets'[purchases[i].asset_id].total_revenue
                         = assets[purchases[i].asset_id].total_revenue
                           + purchases[i].amount_paid]_vars

C12_Witness ==
    /\ CommitFailed(resp)
    /\ resp.code = 500
    /\ \E i \in 1..Len(purchases) :
          /\ Names(resp.req.deal_id, i)
          /\ purchases[i].status = PENDING
          /\ purchases[i].sse_channel_id \in DOMAIN channels
          /\ assets[purchases[i].asset_id].total_sales = 0

\* C13: with a webhook secret configured, a request whose secret is absent
\* or different is answered 403 and changes no purchase, aggregate,
\* registry entry or queue, even when its deal id names an attempt; in
\* every other case the request is not answered 403, and one without a
\* usable payload is answered 400.
C13_SecretCheckedFirst ==
    [][resp'.op = "uza_callback" =>
          IF /\ resp'.req.expected_secret # None
             /\ (resp'.req.incoming_secret = None
                    \/ resp'.req.incoming_secret # resp'.req.expected_secret)
          THEN /\ resp'.code = 403
               /\ purchases' = purchases
               /\ assets' = assets
               /\ channels' = channels
               /\ queues' = queues
          ELSE /\ resp'.code # 403
               /\ resp'.req.deal_id = "" => resp'.code = 400]_vars

C13_Witness ==
    /\ resp.op = "uza_callback"
    /\ resp.code = 403
    /\ resp.req.expected_secret # None
    /\ resp.req.incoming_secret = None
    /\ \E i \in 1..Len(purchases) :
          /\ Names(resp.req.deal_id, i)
          /\ purchases[i].status = PENDING

\* C14: when a stream connects to a channel on which a terminal event was
\* queued while no stream was reading it (the previous stream had
\* disconnected, nobody had connected since), the queue the stream reads
\* from holds a SUCCESS event, so the reconnected stream will relay it.
C14_GapEventNotLost ==
    [][(/\ resp'.op = "payment_stream"
        /\ resp'.result = "subscribed"
        /\ streams[resp'.req.stream].pc = "closed"
        /\ resp'.req.channel_id \in gap_events)
       => LET q == queues'[streams'[resp'.req.stream].q]
          IN \E k \in 1..Len(q) : q[k].status = "SUCCESS"]_vars

\* C15: a publish on a channel id the registry does not hold raises no
\* error, leaves the registry and every queue (also one a stream still
\* holds) as they were, and a stream that subscribes to that channel id
\* afterwards starts on an empty queue.
C15_PublishOnUnknownChannelIsNoOp ==
    [][/\ (resp'.op = "publish" /\ resp'.req.channel_id \notin DOMAIN channels)
          => /\ resp'.result # "error"
             /\ channels' = channels
             /\ queues' = queues
             /\ streams' = streams
       /\ (/\ resp'.op = "payment_stream"
           /\ resp'.result = "subscribed"
           /\ streams[resp'.req.stream].pc = "closed"
           /\ resp'.req.channel_id \notin DOMAIN channels)
          => queues'[streams'[resp'.req.stream].q] = << >>]_vars

C15_Witness ==
    /\ resp.op = "publish"
    /\ resp.req.channel_id \notin DOMAIN channels
    /\ \E s \in StreamIds :
          /\ streams[s].pc = "open"
          /\ streams[s].channel_id = resp.req.channel_id
          /\ Len(queues[streams[s].q]) = 1

\* C16: a subscribe on a registered channel hands out the queue the
\* registry holds, changes neither the registry nor the content of any
\* queue; the registry maps every channel to one live queue; and a message
\* a stream relays is taken off the queue, so no other reader of that
\* queue receives it.
C16_SubscribeReusesQueue ==
    [][/\ (/\ resp'.op = "payment_stream"
           /\ resp'.result = "subscribed"
           /\ streams[resp'.req.stream].pc = "closed"
           /\ resp'.req.channel_id \in DOMAIN channels)
          => /\ streams'[resp'.req.stream].q = channels[resp'.req.channel_id]
             /\ channels' = channels
             /\ queues' = queues
       /\ \A c \in DOMAIN channels' : channels'[c] \in DOMAIN queues'
       /\ (/\ resp'.op = "payment_stream"
           /\ resp'.result \in {"SUCCESS", "FAILED"}
           /\ streams[resp'.req.stream].pc = "open")
          => LET q == streams[resp'.req.stream].q
             IN /\ queues[q] # << >>
                /\ Head(queues[q]).status = resp'.result
                /\ q \in DOMAIN queues' => queues'[q] = Tail(queues[q])]_vars

C16_Witness ==
    /\ resp.op = "payment_stream"
    /\ resp.result = "subscribed"
    /\ \E s, t \in StreamIds :
          /\ s # t
          /\ streams[s].pc = "open"
          /\ streams[t].pc = "open"
          /\ streams[s].q = streams[t].q
          /\ channels[resp.req.channel_id] = streams[s].q
          /\ queues[streams[s].q] # << >>

\* C17: no queue ever holds more than 10 messages, and a publish on a
\* channel whose queue holds 10 returns normally, leaves every queue and
\* the registry as they were and so drops the new message.
C17_QueueBoundedDropsNewest ==
    [][/\ \A q \in DOMAIN queues' : Len(queues'[q]) <= 10
       /\ (/\ resp'.op = "publish"
           /\ resp'.req.channel_id \in DOMAIN channels
           /\ Len(queues[channels[resp'.req.channel_id]]) = 10)
          => /\ resp'.result # "error"
             /\ queues' = queues
             /\ channels' = channels]_vars

C17_Witness ==
    /\ resp.op = "publish"
    /\ resp.result = "dropped"
    /\ Len(queues[channels[resp.req.channel_id]]) = 10

\* C18: a cancel-payment request on a session that is not verified removes
\* the session's identity and nothing else; on a verified session it leaves
\* the session as it was; in both cases every purchase attempt and every
\* asset aggregate is unchanged.
C18_CancelClearsOnlyUnverified ==
    [][resp'.op = "cancel_payment" =>
          /\ purchases' = purchases
          /\ assets' = assets
          /\ IF session.is_verified
             THEN session' = session
             ELSE session' = [session EXCEPT !.customer_phone = None]]_vars

C18_Witness ==
    /\ resp.op = "cancel_payment"
    /\ session.is_verified
    /\ session.customer_phone # None
    /\ \E i \in 1..Len(purchases) : purchases[i].status = PENDING

\* C19: a finalize-session request for an existing attempt sets is_verified
\* when the attempt is COMPLETED and the session's identity equals the
\* identity of the attempt's customer, changing nothing else in the
\* session; in every other case it leaves the session as it was; it is
\* always answered with a redirect and never changes an attempt.
C19_FinalizeVerifiesIffConfirmedOwner ==
    [][(resp'.op = "finalize_session" /\ resp'.req.purchase_id \in 1..Len(purchases)) =>
          LET p == purchases[resp'.req.purchase_id]
          IN /\ purchases' = purchases
             /\ resp'.code = 302
             /\ IF /\ p.status = COMPLETED
                   /\ session.customer_phone # None
                   /\ session.customer_phone = p.customer
                THEN session' = [session EXCEPT !.is_verified = TRUE]
                ELSE session' = session]_vars

C19_Witness ==
    /\ resp.op = "finalize_session"
    /\ session.is_verified
    /\ \E i \in 1..Len(purchases) :
          /\ i = resp.req.purchase_id
          /\ purchases[i].status = COMPLETED
          /\ purchases[i].customer = session.customer_phone
    /\ \E j \in 1..Len(purchases) : purchases[j].customer # session.customer_phone

\* A poll of an existing attempt, and the attempt polled.
Polls(r, i) ==
    /\ r.op = "payment_status"
    /\ r.req.purchase_id = i
    /\ i \in 1..Len(purchases)

C21_Days(interval) ==
    CASE interval = "weekly" -> 7
      [] interval = "monthly" -> 30
      [] interval = "quarterly" -> 90
      [] interval = "yearly" -> 365

C21_Interval(p) ==
    IF p.ticket_data.interval # None THEN p.ticket_data.interval
    ELSE AssetInterval(p.asset_id)

\* The most recent COMPLETED purchases the session's customer holds for
\* the asset of the requested file.
C21_Latest ==
    LET mine == {i \in 1..Len(purchases) :
                    /\ purchases[i].customer = session.customer_phone
                    /\ purchases[i].asset_id = AssetOfFile(resp.req.file_id)
                    /\ purchases[i].status = COMPLETED}
    IN {i \in mine : \A j \in mine : purchases[j].purchase_date <= purchases[i].purchase_date}

\* C21: a content fetch for a subscription asset from a verified session
\* whose customer holds a COMPLETED purchase of it is answered with the
\* file when now < purchase_date + interval days of the most recent such
\* purchase, and with a redirect (not a 403) otherwise.
C21_ServedWhileSubscriptionActive ==
    (/\ resp.op = "serve_content"
     /\ session.customer_phone # None
     /\ session.is_verified
     /\ AssetIsSubscription(AssetOfFile(resp.req.file_id))
     /\ C21_Latest # {})
    => \E i \in C21_Latest :
          IF now < purchases[i].purchase_date + C21_Days(C21_Interval(purchases[i]))
          THEN resp.code = 200
          ELSE resp.code = 302

C21_Witness ==
    /\ resp.op = "serve_content"
    /\ resp.code = 302
    /\ session.is_verified
    /\ \E i \in C21_Latest :
          /\ purchases[i].ticket_data.interval = None
          /\ now - purchases[i].purchase_date \in {30, 31}

\* C22: a content request for an existing file from a session whose
\* creator_id is the creator of the file's asset is not answered 403,
\* whatever the customer part of the session holds.
C22_CreatorAlwaysAuthorized ==
    (/\ resp.op = "serve_content"
     /\ resp.req.file_id \in FileIds
     /\ session.creator_id # 0
     /\ session.creator_id = AssetCreator(AssetOfFile(resp.req.file_id)))
    => resp.code # 403

\* C23: no two different purchase attempts carry the same non-null
\* sse_channel_id.
C23_ChannelIdNeverReused ==
    \A i, j \in 1..Len(purchases) :
        (i # j /\ purchases[i].sse_channel_id # None)
        => purchases[i].sse_channel_id # purchases[j].sse_channel_id

\* C24: every channel that is in the registry is eventually out of it.
C24_ChannelEventuallyRemoved ==
    \A c \in ChannelIds : (c \in DOMAIN channels) ~> (c \notin DOMAIN channels)

\* The queue holds a SUCCESS event.
HoldsSuccess(q) == \E k \in 1..Len(q) : q[k].status = "SUCCESS"

\* C25: a SUCCESS event in a queue names an attempt that is COMPLETED; a
\* webhook whose commit failed leaves the registry and the queues alone;
\* when the handler publishes, the attempt is COMPLETED and every stream
\* connected to the attempt's channel then has the event in its queue;
\* when it then cleans up and returns 200, the channel id is out of the
\* registry and the queue of every connected stream is as it was; and a
\* stream with a SUCCESS event in its queue relays it, unless the client
\* goes away first.
C25_CommitThenPublishThenCleanup ==
    /\ [](\A q \in DOMAIN queues : \A k \in 1..Len(queues[q]) :
             queues[q][k].status = "SUCCESS"
             => purchases[queues[q][k].purchase_id].status = COMPLETED)
    /\ [][\A w \in WorkerIds :
            (workers[w].pc = "dirty" /\ workers'[w].pc = "done") =>
               (resp'.code = 500 /\ channels' = channels /\ queues' = queues)]_vars
    /\ [][\A w \in WorkerIds :
            (workers[w].pc = "committed" /\ workers'[w].pc = "published") =>
               LET p == purchases[workers[w].purchase]
               IN /\ p.status = COMPLETED
                  /\ channels' = channels
                  /\ \A s \in StreamIds :
                        (/\ streams[s].pc = "open"
                         /\ p.sse_channel_id \in DOMAIN channels
                         /\ streams[s].q = channels[p.sse_channel_id])
                        => HoldsSuccess(queues'[streams[s].q])]_vars
    /\ [][\A w \in WorkerIds :
               (workers[w].pc = "published" /\ workers'[w].pc = "done") =>
                  /\ resp'.op = "uza_callback" /\ resp'.result = "processed"
                  /\ purchases[workers[w].purchase].status = COMPLETED
                  /\ purchases[workers[w].purchase].sse_channel_id \notin DOMAIN channels'
                  /\ \A s \in StreamIds :
                        streams[s].pc = "open"
                        => queues'[streams[s].q] = queues[streams[s].q]]_vars
    /\ (streams["s1"].pc = "open" /\ HoldsSuccess(queues[streams["s1"].q]))
          ~> (/\ resp.op = "payment_stream"
              /\ resp.result \in {"SUCCESS", "disconnected"}
              /\ resp.req.stream = "s1")

C25_Witness ==
    /\ resp.op = "uza_callback"
    /\ resp.result = "processed"
    /\ channels = << >>
    /\ streams["s1"].pc = "open"
    /\ HoldsSuccess(queues[streams["s1"].q])


\* The step is one turn of stream s's loop: it emitted a frame.
Emits(s) ==
    /\ resp'.op = "payment_stream"
    /\ resp'.req = [stream |-> s]
    /\ resp'.result \notin {"subscribed", "disconnected"}

\* C26: a stream emits a frame only while it is live; the frame is a
\* heartbeat exactly when its queue is empty, and then nothing is dequeued;
\* otherwise the frame is the head of its queue, which is dequeued, and the
\* stream is over exactly when that message is SUCCESS or FAILED; and no
\* message leaves a queue except in such a turn.
C26_RelayInOrderStopAtTerminal ==
    /\ [][\A s \in StreamIds : Emits(s) =>
            /\ streams[s].pc = "open"
            /\ LET q == streams[s].q
               IN IF queues[q] = << >>
                  THEN /\ resp'.result = "heartbeat"
                       /\ queues' = queues
                       /\ streams' = streams
                  ELSE /\ resp'.result = Head(queues[q]).status
                       /\ q \in DOMAIN queues' => queues'[q] = Tail(queues[q])
                       /\ \A r \in (DOMAIN queues \cap DOMAIN queues') \ {q} :
                             queues'[r] = queues[r]
                       /\ streams'[s].pc = "closed"
                             <=> Head(queues[q]).status \in {"SUCCESS", "FAILED"}
                       /\ \A t \in StreamIds \ {s} : streams'[t] = streams[t]]_vars
    /\ [][\A q \in DOMAIN queues \cap DOMAIN queues' :
            Len(queues'[q]) < Len(queues[q])
            => \E s \in StreamIds : Emits(s) /\ streams[s].q = q]_vars

C26_Witness ==
    /\ resp.op = "payment_stream"
    /\ resp.result = "FAILED"
    /\ streams[resp.req.stream].pc = "closed"
    /\ \E q \in DOMAIN queues : queues[q] # << >>

BlockedReader(s) == streams[s].pc = "open" /\ queues[streams[s].q] = << >>

\* C28: the lock is held by exactly the thread inside a `with` block; the
\* registry changes only in a step of the thread holding the lock; a
\* stream that is reading, blocked or not, is in no method and does not
\* hold the lock; the holder can always finish its block and a thread at a
\* free lock can always take it, whatever readers are blocked; and so the
\* lock is always released and some waiting thread always gets it.
C28_LockDiscipline ==
    /\ [](\A t \in ThreadIds : calls[t].pc = "locked" <=> lock = t)
    /\ [][channels' # channels
            => (lock # None /\ calls[lock].pc = "locked" /\ calls'[lock].pc = "idle")]_vars
    /\ [](\A s \in StreamIds :
            streams[s].pc = "open" => (calls[s].pc = "idle" /\ lock # s))
    /\ [](lock # None => ENABLED LockedBody(lock))
    /\ [](\A t \in ThreadIds :
            (calls[t].pc = "acquiring" /\ lock = None) => ENABLED LockAcquire(t))
    /\ (lock # None) ~> (lock = None)
    /\ (\E t \in ThreadIds : calls[t].pc = "acquiring")
          ~> (\E t \in ThreadIds : calls[t].pc = "locked")

C28_Witness ==
    /\ \E s \in StreamIds : BlockedReader(s)
    /\ lock \in CallerIds
    /\ \E t \in ThreadIds \ {lock} : calls[t].pc = "acquiring"

\* C29: while an initiate request holds the gateway's answer X and has not
\* committed it, and no other attempt carries X, a webhook for X answers
\* 404 and changes no attempt, so the new attempt stays PENDING; and an
\* attempt becomes COMPLETED only in a webhook step for the ref it already
\* carries in the database.
C29_WebhookBeforeRefCommit ==
    /\ [][(/\ initiating.pc = "called"
           /\ initiating' = initiating
           /\ resp'.op = "uza_callback"
           /\ resp'.req.deal_id = initiating.gw
           /\ \A i \in 1..Len(purchases) : purchases[i].payment_gateway_ref # initiating.gw)
            => /\ resp'.code = 404
               /\ purchases' = purchases
               /\ purchases'[initiating.purchase].status = PENDING]_vars
    /\ [][\A i \in 1..Len(purchases) :
            (purchases[i].status # COMPLETED /\ purchases'[i].status = COMPLETED)
            => /\ resp'.op = "uza_callback"
               /\ resp'.code = 200
               /\ purchases[i].payment_gateway_ref = resp'.req.deal_id
               /\ initiating.purchase # i]_vars

C29_Witness ==
    /\ initiating.pc = "called"
    /\ resp.op = "uza_callback"
    /\ resp.code = 404
    /\ resp.req.deal_id = initiating.gw
    /\ purchases[initiating.purchase].status = PENDING

\* The request answered in this step is an initiate_payment that got past
\* the validation of its fields, the asset lookup and the key check.
InitiatePassed ==
    /\ resp'.op = "initiate_payment"
    /\ Strip(resp'.req.phone_number) # ""
    /\ resp'.req.asset_id \in AssetIds
    /\ resp'.req.channel_id # ""
    /\ resp'.req.uza_pk

\* C30: an initiate_payment request that passes validation and the key
\* check leaves the session's identity equal to the phone as supplied and
\* not verified; one that is stopped leaves the session as it was.
C30_InitiateClaimsSuppliedPhone ==
    [][resp'.op = "initiate_payment" =>
         IF InitiatePassed
         THEN /\ session'.customer_phone = resp'.req.phone_number
              /\ ~session'.is_verified
         ELSE session' = session]_vars

\* C30 as the code has it: the identity stored is the supplied phone with
\* surrounding whitespace stripped.
C30_InitiateClaimsStrippedPhone ==
    [][resp'.op = "initiate_payment" =>
         IF InitiatePassed
         THEN /\ session'.customer_phone = Strip(resp'.req.phone_number)
              /\ ~session'.is_verified
         ELSE session' = session]_vars

C30_Witness ==
    /\ resp.op = "initiate_payment"
    /\ resp.code = 200
    /\ resp.req.phone_number = "B"
    /\ session.customer_phone = "B"
    /\ ~session.is_verified
    /\ \E i \in 1..Len(purchases) :
          purchases[i].status = COMPLETED /\ purchases[i].customer = "B"
====
